---- MODULE Spec2Model ----
(***************************************************************************)
(* A model of infinite-wordle (src/script.js): the guess evaluation        *)
(* (evaluateGuess, updateKeyboard) and the game session driven by key      *)
(* presses, the two network calls (random word, dictionary) and the        *)
(* setTimeout callbacks.                                                   *)
(*                                                                         *)
(* Words are sequences of one-character strings.  Rows and columns are     *)
(* 0-based as in the source; sequences are 1-based, so guess[i] of the     *)
(* source is guess[i + 1] here.                                            *)
(***************************************************************************)
EXTENDS Integers, Sequences, FiniteSets, TLC

\* ------------------------------------------------------------------------
\* Program constants
\* ------------------------------------------------------------------------

WORD_LENGTH == 5

MAX_GUESSES == 6

W(a, b, c, d, e) == <<a, b, c, d, e>>

FALLBACK_WORDS ==
    << W("A","P","P","L","E"), W("B","E","A","C","H"), W("B","R","A","I","N"),
       W("B","R","E","A","D"), W("C","H","A","I","R"), W("C","R","A","N","E"),
       W("E","A","R","T","H"), W("F","L","O","O","R"), W("G","H","O","S","T"),
       W("H","E","A","R","T"), W("H","O","U","S","E"), W("J","U","I","C","E"),
       W("L","I","G","H","T"), W("L","U","C","K","Y"), W("M","O","N","E","Y"),
       W("M","U","S","I","C"), W("N","I","G","H","T"), W("O","C","E","A","N"),
       W("P","A","P","E","R"), W("P","A","R","T","Y"), W("P","I","Z","Z","A"),
       W("P","L","A","N","T"), W("P","O","W","E","R"), W("Q","U","I","E","T"),
       W("R","A","D","I","O"), W("R","I","V","E","R"), W("S","A","L","A","D"),
       W("S","H","E","E","P"), W("S","M","I","L","E"), W("S","N","A","K","E"),
       W("S","O","U","N","D"), W("S","P","A","C","E"), W("S","U","G","A","R"),
       W("T","A","B","L","E"), W("T","I","G","E","R"), W("T","R","A","I","N"),
       W("W","A","T","E","R"), W("W","H","I","T","E"), W("W","O","M","A","N"),
       W("W","O","R","L","D") >>

\* ------------------------------------------------------------------------
\* Letters and case conversion (String.prototype.toUpperCase / toLowerCase)
\* ------------------------------------------------------------------------

LowerAlphabet ==
    << "a","b","c","d","e","f","g","h","i","j","k","l","m",
       "n","o","p","q","r","s","t","u","v","w","x","y","z" >>

UpperAlphabet ==
    << "A","B","C","D","E","F","G","H","I","J","K","L","M",
       "N","O","P","Q","R","S","T","U","V","W","X","Y","Z" >>

LowerLetters == { LowerAlphabet[i] : i \in 1..26 }

UpperLetters == { UpperAlphabet[i] : i \in 1..26 }

toUpperCase(c) ==
    IF c \in LowerLetters
    THEN UpperAlphabet[CHOOSE i \in 1..26 : LowerAlphabet[i] = c]
    ELSE c

toLowerCase(c) ==
    IF c \in UpperLetters
    THEN LowerAlphabet[CHOOSE i \in 1..26 : UpperAlphabet[i] = c]
    ELSE c

\* key.toLowerCase() of a key name: the named keys of a keyup event, or one
\* letter.
NamedKeys == { <<"Enter", "enter">>, <<"Backspace", "backspace">>, <<"Shift", "shift">> }

keyToLowerCase(key) ==
    IF \E p \in NamedKeys : p[1] = key
    THEN (CHOOSE p \in NamedKeys : p[1] = key)[2]
    ELSE toLowerCase(key)

wordToUpperCase(w) == [i \in DOMAIN w |-> toUpperCase(w[i])]

\* ------------------------------------------------------------------------
\* Bounds of the model
\* ------------------------------------------------------------------------

\* Letters the evaluation specification draws guesses and secrets from.
NumEvalLetters == 2

\* Words the player types (the first NumGuessWords of GuessList).
NumGuessWords == 1

\* Clicks on a Play Again button left in the toast while no finished game is
\* waiting for it (a second click, a click during the next game).
MaxStaleClicks == 1

\* Guesses the dictionary accepts after a stale click (how far the game is
\* followed once a reset has hit a game in progress).
MaxStaleEvaluations == 1

\* Words the player types in the replay specification (the first
\* NumReplayWords of GuessList).
NumReplayWords == 2

GuessList ==
    << W("l","e","v","e","l"), W("a","p","p","l","e"), W("p","a","p","e","r"),
       W("p","u","l","p","y") >>

GuessWords == { GuessList[i] : i \in 1..NumGuessWords }

ReplayWords == { GuessList[i] : i \in 1..NumReplayWords }

\* Words the random-word API answers with (before toUpperCase).
ProviderWords == { W("l","e","v","e","l") }

\* Values of Math.floor(Math.random() * FALLBACK_WORDS.length) (0-based).
RandomDraws == { 0, 18 }

\* ------------------------------------------------------------------------
\* evaluateGuess: the two passes
\* ------------------------------------------------------------------------

\* letterCounts after the counting loop: one entry per letter of the target.
letterCountsOf(target) ==
    [ c \in { target[i] : i \in DOMAIN target } |->
        Cardinality({ i \in DOMAIN target : target[i] = c }) ]

\* Array(WORD_LENGTH).fill(null)
nullEvaluation == [ i \in 1..WORD_LENGTH |-> "null" ]

\* Mutant: the first pass stops one position early.
RECURSIVE firstPassShort(_, _, _, _)
firstPassShort(guess, target, i, st) ==
    IF i > WORD_LENGTH - 1 THEN st
    ELSE IF i \in DOMAIN target /\ guess[i] = target[i]
    THEN firstPassShort(guess, target, i + 1,
             [ evaluation   |-> [st.evaluation EXCEPT ![i] = "correct"],
               letterCounts |-> [st.letterCounts EXCEPT ![guess[i]] = @ - 1] ])
    ELSE firstPassShort(guess, target, i + 1, st)

RECURSIVE firstPass(_, _, _, _)
firstPass(guess, target, i, st) ==
    IF i > WORD_LENGTH THEN st
    ELSE IF i \in DOMAIN target /\ guess[i] = target[i]
    THEN firstPass(guess, target, i + 1,
             [ evaluation   |-> [st.evaluation EXCEPT ![i] = "correct"],
               letterCounts |-> [st.letterCounts EXCEPT ![guess[i]] = @ - 1] ])
    ELSE firstPass(guess, target, i + 1, st)

RECURSIVE secondPass(_, _, _, _)
secondPass(guess, target, i, st) ==
    IF i > WORD_LENGTH THEN st
    ELSE IF st.evaluation[i] # "null"
    THEN secondPass(guess, target, i + 1, st)
    ELSE IF guess[i] \in DOMAIN st.letterCounts /\ st.letterCounts[guess[i]] > 0
    THEN secondPass(guess, target, i + 1,
             [ evaluation   |-> [st.evaluation EXCEPT ![i] = "present"],
               letterCounts |-> [st.letterCounts EXCEPT ![guess[i]] = @ - 1] ])
    ELSE secondPass(guess, target, i + 1,
             [ evaluation   |-> [st.evaluation EXCEPT ![i] = "absent"],
               letterCounts |-> st.letterCounts ])

\* Mutant: guess and target change places.
evaluationSwapped(guess, target) ==
    secondPass(target, guess, 1,
        firstPass(target, guess, 1,
            [ evaluation   |-> nullEvaluation,
              letterCounts |-> letterCountsOf(guess) ])).evaluation

\* Mutant: a single pass that asks only whether the secret contains the letter.
evaluationNaive(guess, target) ==
    [ i \in 1..WORD_LENGTH |->
        IF guess[i] = target[i] THEN "correct"
        ELSE IF \E n \in DOMAIN target : target[n] = guess[i] THEN "present"
        ELSE "absent" ]

\* The evaluation array evaluateGuess computes for guess against target.
evaluationOf(guess, target) ==
    secondPass(guess, target, 1,
        firstPass(guess, target, 1,
            [ evaluation   |-> nullEvaluation,
              letterCounts |-> letterCountsOf(target) ])).evaluation

\* ------------------------------------------------------------------------
\* State
\* ------------------------------------------------------------------------

VARIABLES
    targetWord,       \* let targetWord: a word of upper-case letters
    currentRow,       \* let currentRow
    currentCol,       \* let currentCol
    isGameOver,       \* let isGameOver
    isProcessing,     \* let isProcessing
    grid,             \* grid.children: tile index -> [front, back, classes]
    keyboard,         \* the key-<letter> buttons: letter -> classList
    toast,            \* content of the toast element: [text, word, button]
    fetches,          \* fetchNewWord calls awaiting the random-word API
    requests,         \* submitGuess calls awaiting the dictionary API
    flips,            \* evaluateGuess timer batches, oldest first
    playAgainTimers,  \* pending setTimeout(showPlayAgain, 1000)
    outcomes,         \* history: "win"/"loss" signalled since the last initGame
    evaluated,        \* history: verdicts computed since the last initGame
    staleClicks,      \* history: stale clicks on Play Again so far
    staleEvaluations  \* history: guesses accepted after a stale click

vars ==
    << targetWord, currentRow, currentCol, isGameOver, isProcessing, grid,
       keyboard, toast, fetches, requests, flips, playAgainTimers, outcomes,
       evaluated, staleClicks, staleEvaluations >>

Tiles == 0 .. (MAX_GUESSES * WORD_LENGTH - 1)

\* createGrid: MAX_GUESSES * WORD_LENGTH tiles with empty faces.
createGrid == [ t \in Tiles |-> [ front |-> "", back |-> "", classes |-> {} ] ]

\* createKeyboard: one button per letter, class bg-gray-500.
createKeyboard == [ k \in LowerLetters |-> { "bg-gray-500" } ]

\* getTile(row, col)
getTile(row, col) == row * WORD_LENGTH + col

\* getCurrentGuess: the front faces of row currentRow, upper-cased.
getCurrentGuess ==
    [ i \in 1..WORD_LENGTH |-> toUpperCase(grid[getTile(currentRow, i - 1)].front) ]

NoToast == [ text |-> "", word |-> <<>>, button |-> FALSE ]

\* showToast(message): toast.textContent = message replaces the children of
\* the toast, a Play Again button included.
showToast(message, word) == [ text |-> message, word |-> word, button |-> FALSE ]

\* Outstanding asynchronous work.
Pending == fetches + Len(requests) + Len(flips) + playAgainTimers

\* The mark a key or tile shows, as a rank: 3 correct, 2 present, 1 absent,
\* 0 none.  Of several colour classes the rule written last in the style
\* sheet wins (.absent after .present after .correct, all !important).
Rank(classes) ==
    IF "absent" \in classes THEN 1
    ELSE IF "present" \in classes THEN 2
    ELSE IF "correct" \in classes THEN 3
    ELSE 0

VerdictRank(v) == Rank({v})

NoVerdicts == [ k \in LowerLetters |-> 0 ]

\* ------------------------------------------------------------------------
\* initGame / fetchNewWord
\* ------------------------------------------------------------------------

\* initGame up to its await: fresh grid and keyboard, then fetchNewWord sets
\* isProcessing and starts the fetch.  The tiles captured by pending timer
\* batches leave the document (grid.innerHTML = ''): their tileRow becomes <<>>,
\* and what the timers do to them is seen by nobody.
initGame ==
    /\ isGameOver' = FALSE
    /\ currentRow' = 0
    /\ currentCol' = 0
    /\ grid' = createGrid
    /\ keyboard' = createKeyboard
    /\ isProcessing' = TRUE
    /\ fetches' = fetches + 1
    /\ flips' = [ j \in DOMAIN flips |-> [flips[j] EXCEPT !.tileRow = <<>>] ]
    /\ outcomes' = <<>>
    /\ evaluated' = NoVerdicts
    /\ UNCHANGED << targetWord, toast, requests, playAgainTimers >>

\* The second half of fetchNewWord, either with the word of the API or, from
\* the catch block, with a random fallback word.
fetchResolved(word) ==
    /\ fetches > 0
    /\ fetches' = fetches - 1
    /\ targetWord' = word
    /\ isProcessing' = FALSE
    /\ UNCHANGED << currentRow, currentCol, isGameOver, grid, keyboard,
                    toast, requests, flips, playAgainTimers, outcomes,
                    evaluated, staleClicks, staleEvaluations >>

FetchOk == \E w \in ProviderWords : fetchResolved(wordToUpperCase(w))

\* Mutant: the fallback word is stored in lower case.
FetchFailLowerCase ==
    \E r \in RandomDraws :
        fetchResolved([ i \in 1..WORD_LENGTH |-> toLowerCase(FALLBACK_WORDS[r + 1][i]) ])

FetchFail == \E r \in RandomDraws : fetchResolved(FALLBACK_WORDS[r + 1])

\* ------------------------------------------------------------------------
\* Key presses
\* ------------------------------------------------------------------------

\* Mutant: no test of the cursor against WORD_LENGTH.
addLetterUnguarded(letter) ==
    /\ grid' = [ t \in Tiles |->
                  IF t = getTile(currentRow, currentCol)
                  THEN [grid[t] EXCEPT !.front = letter]
                  ELSE grid[t] ]
    /\ currentCol' = currentCol + 1
    /\ UNCHANGED << targetWord, currentRow, isGameOver, isProcessing,
                    keyboard, toast, fetches, requests, flips,
                    playAgainTimers, outcomes, evaluated, staleClicks,
                    staleEvaluations >>

addLetter(letter) ==
    IF currentCol < WORD_LENGTH
    THEN /\ grid' = [grid EXCEPT ![getTile(currentRow, currentCol)].front = letter]
         /\ currentCol' = currentCol + 1
         /\ UNCHANGED << targetWord, currentRow, isGameOver, isProcessing,
                         keyboard, toast, fetches, requests, flips,
                         playAgainTimers, outcomes, evaluated, staleClicks,
                         staleEvaluations >>
    ELSE UNCHANGED vars

deleteLetter ==
    IF currentCol > 0
    THEN /\ currentCol' = currentCol - 1
         /\ grid' = [grid EXCEPT ![getTile(currentRow, currentCol - 1)].front = ""]
         /\ UNCHANGED << targetWord, currentRow, isGameOver, isProcessing,
                         keyboard, toast, fetches, requests, flips,
                         playAgainTimers, outcomes, evaluated, staleClicks,
                         staleEvaluations >>
    ELSE UNCHANGED vars

\* What a submission had in front of it, kept with the request.
Snapshot ==
    [ row    |-> currentRow,
      col    |-> currentCol,
      fronts |-> [ t \in Tiles |-> grid[t].front ],
      marks  |-> [ k \in LowerLetters |-> Rank(keyboard[k]) ] ]

\* Mutant: the row is sent to the dictionary whatever its length.
submitGuessUnchecked ==
    /\ isProcessing' = TRUE
    /\ requests' = Append(requests, [ guess |-> getCurrentGuess,
                                      before |-> Snapshot ])
    /\ UNCHANGED << targetWord, currentRow, currentCol, isGameOver, grid,
                    keyboard, toast, fetches, flips, playAgainTimers,
                    outcomes, evaluated, staleClicks, staleEvaluations >>

\* submitGuess up to its await.
submitGuess ==
    IF currentCol < WORD_LENGTH
    THEN /\ toast' = showToast("Not enough letters", <<>>)
         /\ UNCHANGED << targetWord, currentRow, currentCol, isGameOver,
                         isProcessing, grid, keyboard, fetches, requests,
                         flips, playAgainTimers, outcomes, evaluated,
                         staleClicks, staleEvaluations >>
    ELSE /\ isProcessing' = TRUE
         /\ requests' = Append(requests, [ guess |-> getCurrentGuess,
                                           before |-> Snapshot ])
         /\ UNCHANGED << targetWord, currentRow, currentCol, isGameOver, grid,
                         keyboard, toast, fetches, flips, playAgainTimers,
                         outcomes, evaluated, staleClicks, staleEvaluations >>

handleKeyPress(key) ==
    IF isGameOver \/ isProcessing THEN UNCHANGED vars
    ELSE LET lowerKey == keyToLowerCase(key)
         IN  IF lowerKey = "enter" THEN submitGuess
             ELSE IF lowerKey = "backspace" THEN deleteLetter
             ELSE IF lowerKey \in LowerLetters THEN addLetter(lowerKey)
             ELSE UNCHANGED vars

\* ------------------------------------------------------------------------
\* The dictionary answers: the rest of submitGuess, and evaluateGuess
\* ------------------------------------------------------------------------

RemoveAt(seq, i) == SubSeq(seq, 1, i - 1) \o SubSeq(seq, i + 1, Len(seq))

\* The verdicts of one evaluation folded into the history of the session.
Record(guess, evaluation) ==
    [ k \in LowerLetters |->
        LET got == { VerdictRank(evaluation[i]) :
                       i \in { n \in 1..WORD_LENGTH : toLowerCase(guess[n]) = k } }
        IN  IF got = {} THEN evaluated[k]
            ELSE LET best == CHOOSE r \in got : \A q \in got : q <= r
                 IN  IF best > evaluated[k] THEN best ELSE evaluated[k] ]

\* Array.from(grid.children).slice(row * WORD_LENGTH, (row + 1) * WORD_LENGTH)
tileRowOf(row) == [ i \in 1..WORD_LENGTH |-> getTile(row, i - 1) ]

\* evaluateGuess(guess): the evaluation is computed at once against the
\* current targetWord; the WORD_LENGTH flips and checkWinLoss are scheduled.
evaluateGuess(guess) ==
    LET evaluation == evaluationOf(guess, targetWord)
    IN  /\ flips' = Append(flips, [ guess      |-> guess,
                                    evaluation |-> evaluation,
                                    tileRow    |-> tileRowOf(currentRow),
                                    next       |-> 0 ])
        /\ evaluated' = Record(guess, evaluation)

\* response.ok: the word is in the dictionary.
ValidatorAccept(i) ==
    /\ i \in DOMAIN requests
    /\ IF staleClicks = 0
       THEN staleEvaluations' = staleEvaluations
       ELSE /\ staleEvaluations < MaxStaleEvaluations
            /\ staleEvaluations' = staleEvaluations + 1
    /\ requests' = RemoveAt(requests, i)
    /\ evaluateGuess(requests[i].guess)
    /\ UNCHANGED << targetWord, currentRow, currentCol, isGameOver,
                    isProcessing, grid, keyboard, toast, fetches,
                    playAgainTimers, outcomes, staleClicks >>

\* !response.ok: shakeRow, toast, input re-enabled.
ValidatorReject(i) ==
    /\ i \in DOMAIN requests
    /\ requests' = RemoveAt(requests, i)
    /\ toast' = showToast("Not in word list", <<>>)
    /\ isProcessing' = FALSE
    /\ UNCHANGED << targetWord, currentRow, currentCol, isGameOver, grid,
                    keyboard, fetches, flips, playAgainTimers, outcomes,
                    evaluated, staleClicks, staleEvaluations >>

\* fetch rejects: the catch block.
ValidatorError(i) ==
    /\ i \in DOMAIN requests
    /\ requests' = RemoveAt(requests, i)
    /\ toast' = showToast("Error checking word", <<>>)
    /\ isProcessing' = FALSE
    /\ UNCHANGED << targetWord, currentRow, currentCol, isGameOver, grid,
                    keyboard, fetches, flips, playAgainTimers, outcomes,
                    evaluated, staleClicks, staleEvaluations >>

\* ------------------------------------------------------------------------
\* Timers: the flips of a row, checkWinLoss, showPlayAgain
\* ------------------------------------------------------------------------

\* Mutant: an Absent verdict is applied to a key marked Present.
updateKeyboardDowngrading(letter, status) ==
    LET key == toLowerCase(letter)
    IN  IF key \notin DOMAIN keyboard THEN keyboard
        ELSE IF "correct" \in keyboard[key] THEN keyboard
        ELSE [keyboard EXCEPT
                ![key] = (@ \ { "present", "absent", "bg-gray-500" }) \cup { status }]

\* updateKeyboard(letter, status): the classList of every key afterwards.
updateKeyboard(letter, status) ==
    LET key == toLowerCase(letter)
    IN  IF key \notin DOMAIN keyboard THEN keyboard
        ELSE IF "correct" \in keyboard[key] THEN keyboard
        ELSE IF "present" \in keyboard[key] /\ status = "absent" THEN keyboard
        ELSE [keyboard EXCEPT
                ![key] = (@ \ { "present", "absent", "bg-gray-500" }) \cup { status }]

\* Timers of one batch fire in order (0, 300, ..., 1500 ms), and a timer of a
\* later batch fires after the same timer of every earlier batch.
Due(j) == \A i \in 1..(j - 1) : flips[i].next > flips[j].next

\* The callback of tile `index` of a batch: flip the tile, colour it, update
\* the key.  A tile that left the document is changed out of sight.
FlipTimer(j) ==
    /\ j \in DOMAIN flips
    /\ flips[j].next < WORD_LENGTH
    /\ Due(j)
    /\ LET b     == flips[j]
           index == b.next
       IN  /\ grid' = IF b.tileRow # <<>>
                      THEN [grid EXCEPT
                              ![b.tileRow[index + 1]].back = grid[b.tileRow[index + 1]].front,
                              ![b.tileRow[index + 1]].classes =
                                  @ \cup { "flip", b.evaluation[index + 1] }]
                      ELSE grid
           /\ keyboard' = updateKeyboard(b.guess[index + 1], b.evaluation[index + 1])
           /\ flips' = [flips EXCEPT ![j].next = index + 1]
    /\ UNCHANGED << targetWord, currentRow, currentCol, isGameOver,
                    isProcessing, toast, fetches, requests, playAgainTimers,
                    outcomes, evaluated, staleClicks, staleEvaluations >>

\* Mutant: a guess that neither wins nor loses leaves the lock set.
checkWinLossLocked(guess) ==
    IF guess = targetWord
    THEN /\ toast' = showToast("You got it!", <<>>)
         /\ isGameOver' = TRUE
         /\ playAgainTimers' = playAgainTimers + 1
         /\ outcomes' = Append(outcomes, "win")
         /\ UNCHANGED << currentRow, currentCol, isProcessing, staleClicks,
                         staleEvaluations >>
    ELSE IF currentRow = MAX_GUESSES - 1
    THEN /\ toast' = showToast("Game Over! The word was", targetWord)
         /\ isGameOver' = TRUE
         /\ playAgainTimers' = playAgainTimers + 1
         /\ outcomes' = Append(outcomes, "loss")
         /\ UNCHANGED << currentRow, currentCol, isProcessing, staleClicks,
                         staleEvaluations >>
    ELSE /\ currentRow' = currentRow + 1
         /\ currentCol' = 0
         /\ UNCHANGED << toast, isGameOver, isProcessing, playAgainTimers,
                         outcomes, staleClicks, staleEvaluations >>

checkWinLoss(guess) ==
    IF guess = targetWord
    THEN /\ toast' = showToast("You got it!", <<>>)
         /\ isGameOver' = TRUE
         /\ playAgainTimers' = playAgainTimers + 1
         /\ outcomes' = Append(outcomes, "win")
         /\ UNCHANGED << currentRow, currentCol, isProcessing, staleClicks,
                         staleEvaluations >>
    ELSE IF currentRow = MAX_GUESSES - 1
    THEN /\ toast' = showToast("Game Over! The word was", targetWord)
         /\ isGameOver' = TRUE
         /\ playAgainTimers' = playAgainTimers + 1
         /\ outcomes' = Append(outcomes, "loss")
         /\ UNCHANGED << currentRow, currentCol, isProcessing, staleClicks,
                         staleEvaluations >>
    ELSE /\ currentRow' = currentRow + 1
         /\ currentCol' = 0
         /\ isProcessing' = FALSE
         /\ UNCHANGED << toast, isGameOver, playAgainTimers, outcomes,
                         staleClicks, staleEvaluations >>

\* The last timer of the oldest batch: checkWinLoss(guess).
CheckTimer ==
    /\ flips # <<>>
    /\ flips[1].next = WORD_LENGTH
    /\ checkWinLoss(flips[1].guess)
    /\ flips' = Tail(flips)
    /\ UNCHANGED << targetWord, grid, keyboard, fetches, requests, evaluated,
                    staleClicks, staleEvaluations >>

\* showPlayAgain: the toast becomes the Play Again button.
showPlayAgain ==
    /\ playAgainTimers > 0
    /\ playAgainTimers' = playAgainTimers - 1
    /\ toast' = [ text |-> "Play Again?", word |-> <<>>, button |-> TRUE ]
    /\ UNCHANGED << targetWord, currentRow, currentCol, isGameOver,
                    isProcessing, grid, keyboard, fetches, requests, flips,
                    outcomes, evaluated, staleClicks, staleEvaluations >>

\* A click on the Play Again button.  The click listener only removes the
\* class opacity-100 from the toast: the button stays in the document, still
\* receiving clicks (and Enter/Space while it has the focus), until the next
\* showToast replaces the content of the toast.  A click that finds a finished
\* game and nothing outstanding is the expected one; any other is stale.
ClickPlayAgain ==
    /\ toast.button
    /\ IF isGameOver /\ Pending = 0
       THEN staleClicks' = staleClicks
       ELSE /\ staleClicks < MaxStaleClicks
            /\ staleClicks' = staleClicks + 1
    /\ UNCHANGED staleEvaluations
    /\ initGame

\* ------------------------------------------------------------------------
\* The player
\* ------------------------------------------------------------------------

\* The letters typed so far in the current row.
Typed == [ i \in 1..currentCol |-> grid[getTile(currentRow, i - 1)].front ]

IsPrefix(p, w) == Len(p) <= Len(w) /\ \A i \in 1..Len(p) : p[i] = w[i]

\* The player types words of GuessWords (and may delete and retype).
Types(key) ==
    \/ keyToLowerCase(key) \notin LowerLetters
    \/ isGameOver \/ isProcessing \/ currentCol >= WORD_LENGTH
    \/ \E w \in GuessWords : IsPrefix(Append(Typed, keyToLowerCase(key)), w)

\* e.key of a keyup event, or data-key of an on-screen button.
InputKeys ==
    { "Enter", "Backspace", "Shift" }
        \cup { w[i] : w \in GuessWords, i \in 1..WORD_LENGTH }
        \cup { toUpperCase(w[1]) : w \in GuessWords }

KeyPress == \E key \in InputKeys : Types(key) /\ handleKeyPress(key)

\* ------------------------------------------------------------------------
\* The session
\* ------------------------------------------------------------------------

\* The script has run: initGame() is waiting for the first word.
Init ==
    /\ targetWord = <<>>
    /\ currentRow = 0
    /\ currentCol = 0
    /\ isGameOver = FALSE
    /\ isProcessing = TRUE
    /\ grid = createGrid
    /\ keyboard = createKeyboard
    /\ toast = NoToast
    /\ fetches = 1
    /\ requests = <<>>
    /\ flips = <<>>
    /\ playAgainTimers = 0
    /\ outcomes = <<>>
    /\ evaluated = NoVerdicts
    /\ staleClicks = 0
    /\ staleEvaluations = 0

Next ==
    \/ KeyPress
    \/ FetchOk
    \/ FetchFail
    \/ \E i \in DOMAIN requests : ValidatorAccept(i)
    \/ \E i \in DOMAIN requests : ValidatorReject(i)
    \/ \E i \in DOMAIN requests : ValidatorError(i)
    \/ \E j \in DOMAIN flips : FlipTimer(j)
    \/ CheckTimer
    \/ showPlayAgain
    \/ ClickPlayAgain

Spec == Init /\ [][Next]_vars

\* The session with the scheduling of the browser: a fetch settles (resolves
\* or rejects), and a timer that was set fires.  Nothing is assumed of the
\* player.
Fairness ==
    /\ WF_vars(FetchOk \/ FetchFail)
    /\ WF_vars(\E i \in DOMAIN requests :
                   ValidatorReject(i) \/ ValidatorError(i) \/ ValidatorAccept(i))
    /\ WF_vars(\E j \in DOMAIN flips : FlipTimer(j))
    /\ WF_vars(CheckTimer)
    /\ WF_vars(showPlayAgain)

SpecLive == Spec /\ Fairness

\* ------------------------------------------------------------------------
\* The second game: Play Again has been clicked after a win and the new word
\* has arrived, with the button still in the toast.  The player types words of
\* ReplayWords without correcting them and the dictionary knows every word.
\* ------------------------------------------------------------------------

TypesReplay(key) ==
    \/ keyToLowerCase(key) \notin LowerLetters
    \/ isGameOver \/ isProcessing \/ currentCol >= WORD_LENGTH
    \/ \E w \in ReplayWords : IsPrefix(Append(Typed, keyToLowerCase(key)), w)

ReplayKeys == { "Enter" } \cup { w[i] : w \in ReplayWords, i \in 1..WORD_LENGTH }

KeyPressReplay == \E key \in ReplayKeys : TypesReplay(key) /\ handleKeyPress(key)

InitReplay ==
    /\ targetWord = wordToUpperCase(GuessList[1])
    /\ currentRow = 0
    /\ currentCol = 0
    /\ isGameOver = FALSE
    /\ isProcessing = FALSE
    /\ grid = createGrid
    /\ keyboard = createKeyboard
    /\ toast = [ text |-> "Play Again?", word |-> <<>>, button |-> TRUE ]
    /\ fetches = 0
    /\ requests = <<>>
    /\ flips = <<>>
    /\ playAgainTimers = 0
    /\ outcomes = <<>>
    /\ evaluated = NoVerdicts
    /\ staleClicks = 0
    /\ staleEvaluations = 0

NextReplay ==
    \/ KeyPressReplay
    \/ FetchOk
    \/ \E i \in DOMAIN requests : ValidatorAccept(i)
    \/ \E j \in DOMAIN flips : FlipTimer(j)
    \/ CheckTimer
    \/ showPlayAgain
    \/ ClickPlayAgain

SpecReplay == InitReplay /\ [][NextReplay]_vars

\* ------------------------------------------------------------------------
\* The evaluation on its own: any guess against any secret
\* ------------------------------------------------------------------------

EvalLetters == { UpperAlphabet[i] : i \in 1..NumEvalLetters }

\* Guesses and secrets: every word over EvalLetters and the fallback words.
EvalWords ==
    [ 1..WORD_LENGTH -> EvalLetters ]
        \cup { FALLBACK_WORDS[i] : i \in 1..Len(FALLBACK_WORDS) }

\* The first row holds a guess, submitted and awaiting the dictionary.
InitEval ==
    \E guess \in EvalWords, secret \in EvalWords :
        /\ targetWord = secret
        /\ currentRow = 0
        /\ currentCol = WORD_LENGTH
        /\ isGameOver = FALSE
        /\ isProcessing = TRUE
        /\ grid = [ t \in Tiles |->
                     IF t < WORD_LENGTH
                     THEN [ front |-> toLowerCase(guess[t + 1]), back |-> "",
                            classes |-> {} ]
                     ELSE createGrid[t] ]
        /\ keyboard = createKeyboard
        /\ toast = NoToast
        /\ fetches = 0
        /\ requests =
             << [ guess  |-> guess,
                  before |-> [ row    |-> 0,
                               col    |-> WORD_LENGTH,
                               fronts |-> [ t \in Tiles |->
                                             IF t < WORD_LENGTH
                                             THEN toLowerCase(guess[t + 1])
                                             ELSE "" ],
                               marks  |-> NoVerdicts ] ] >>
        /\ flips = <<>>
        /\ playAgainTimers = 0
        /\ outcomes = <<>>
        /\ evaluated = NoVerdicts
        /\ staleClicks = 0
        /\ staleEvaluations = 0

NextEval == \E i \in DOMAIN requests : ValidatorAccept(i)

SpecEval == InitEval /\ [][NextEval]_vars

\* ------------------------------------------------------------------------
\* Properties of the evaluation (checked under SpecEval)
\* ------------------------------------------------------------------------

Occurrences(word, c) == Cardinality({ i \in DOMAIN word : word[i] = c })

Min(a, b) == IF a <= b THEN a ELSE b

\* Positions of the guess that are exact matches / are not.
Matching(guess, secret) == { i \in 1..WORD_LENGTH : guess[i] = secret[i] }

NonMatching(guess, secret) == (1..WORD_LENGTH) \ Matching(guess, secret)

\* What the two passes are claimed to produce, position by position.
TwoPassVerdict(guess, secret, i) ==
    IF i \in Matching(guess, secret) THEN "correct"
    ELSE LET earlier   == { j \in NonMatching(guess, secret) :
                              j < i /\ guess[j] = guess[i] }
             remaining == Occurrences(secret, guess[i])
                            - Cardinality({ j \in Matching(guess, secret) :
                                              guess[j] = guess[i] })
         IN  IF Cardinality(earlier) < remaining THEN "present" ELSE "absent"

\* C1: for every guess and secret of WORD_LENGTH upper-case letters the
\* evaluation is the two-pass verdict at every position (Correct exactly at
\* the exact matches; a non-matching position Present exactly when fewer
\* earlier non-matching positions hold its letter than the secret has
\* occurrences left after the exact matches; Absent otherwise), and so, per
\* letter, the non-Absent verdicts number min(occurrences in guess,
\* occurrences in secret).
C1_TwoPassVerdicts ==
    \A j \in DOMAIN flips :
        LET guess      == flips[j].guess
            evaluation == flips[j].evaluation
        IN  /\ DOMAIN evaluation = 1..WORD_LENGTH
            /\ \A i \in 1..WORD_LENGTH :
                   evaluation[i] = TwoPassVerdict(guess, targetWord, i)
            /\ \A c \in UpperLetters :
                   Cardinality({ i \in 1..WORD_LENGTH :
                                   guess[i] = c /\ evaluation[i] # "absent" })
                     = Min(Occurrences(guess, c), Occurrences(targetWord, c))

\* A guess with a letter it holds more often than the secret does, one copy an
\* exact match, one Present and one Absent, has been evaluated.
C1_Witness ==
    \E j \in DOMAIN flips :
        \E a, b, c \in 1..WORD_LENGTH :
            /\ flips[j].guess[a] = flips[j].guess[b]
            /\ flips[j].guess[b] = flips[j].guess[c]
            /\ flips[j].evaluation[a] = "correct"
            /\ flips[j].evaluation[b] = "present"
            /\ flips[j].evaluation[c] = "absent"

APPLE == W("A","P","P","L","E")

PAPER == W("P","A","P","E","R")

\* C2 as stated: for secret APPLE and guess PAPER the verdicts are
\* [Present, Present, Correct, Absent, Present].
C2_AsStated ==
    \A j \in DOMAIN flips :
        (targetWord = APPLE /\ flips[j].guess = PAPER)
            => flips[j].evaluation
                 = << "present", "present", "correct", "absent", "present" >>

\* C2 amended: for secret APPLE and guess PAPER the verdicts are
\* [Present, Present, Correct, Present, Absent]: the E of PAPER is in APPLE,
\* its R is not.
C2_PaperAgainstApple ==
    \A j \in DOMAIN flips :
        (targetWord = APPLE /\ flips[j].guess = PAPER)
            => flips[j].evaluation
                 = << "present", "present", "correct", "present", "absent" >>

\* PAPER has been evaluated against APPLE.
C2_Witness ==
    \E j \in DOMAIN flips : targetWord = APPLE /\ flips[j].guess = PAPER

\* C3: evaluating a word against itself yields Correct at every position.
C3_ExactMatch ==
    \A j \in DOMAIN flips :
        flips[j].guess = targetWord
            => \A i \in 1..WORD_LENGTH : flips[j].evaluation[i] = "correct"

\* A word with a repeated letter has been evaluated against itself.
C3_Witness ==
    \E j \in DOMAIN flips :
        /\ flips[j].guess = targetWord
        /\ \E a, b \in 1..WORD_LENGTH : a # b /\ targetWord[a] = targetWord[b]


\* ------------------------------------------------------------------------
\* Properties of the session (checked under Spec)
\* ------------------------------------------------------------------------

Fronts == [ t \in Tiles |-> grid[t].front ]

Marks == [ k \in LowerLetters |-> Rank(keyboard[k]) ]

\* C4: within a session a key's mark only moves upward in the order
\* unmarked < Absent < Present < Correct: a key marked Correct is not changed
\* again and a key marked Present is never changed to Absent.  (The one step
\* that lowers marks is the session reset, which builds a new keyboard.)
C4_KeyboardMonotone ==
    [][ ClickPlayAgain
        \/ \A k \in LowerLetters :
              /\ Rank(keyboard'[k]) >= Rank(keyboard[k])
              /\ Rank(keyboard[k]) = 3 => keyboard'[k] = keyboard[k] ]_vars

\* A key received a Present and then an Absent verdict and is marked Present.
C4_Witness ==
    \E j \in DOMAIN flips :
        \E m, n \in 1..flips[j].next :
            /\ m < n
            /\ flips[j].guess[m] = flips[j].guess[n]
            /\ flips[j].evaluation[m] = "present"
            /\ flips[j].evaluation[n] = "absent"
            /\ Rank(keyboard[toLowerCase(flips[j].guess[n])]) = 2

\* C5 as stated: once every verdict of the accepted rows has been applied,
\* each key's mark is the best verdict its letter received in a guess
\* evaluated in this session.
C5_MarksAreBest ==
    flips = <<>> => \A k \in LowerLetters : Rank(keyboard[k]) = evaluated[k]

\* C6 as stated: in one session at most one of win and loss is signalled, and
\* at most once.
C6_OneOutcome == Len(outcomes) <= 1

\* C7: the cursor stays within 0..WORD_LENGTH and the row index within
\* 0..MAX_GUESSES-1.
C7_TurnBounds ==
    /\ currentCol \in 0..WORD_LENGTH
    /\ currentRow \in 0..(MAX_GUESSES - 1)

\* The last row is full and has been lost.
C7_Witness ==
    /\ currentCol = WORD_LENGTH
    /\ currentRow = MAX_GUESSES - 1
    /\ outcomes = << "loss" >>

\* C8: a submit while input is accepted and the cursor is short of
\* WORD_LENGTH shows "Not enough letters" and changes neither row, cursor,
\* tile letters, lock flag nor game-over flag, and sends nothing to the
\* dictionary.
C8_ShortSubmitRejected ==
    [][ \A key \in InputKeys :
          ( /\ ~isGameOver /\ ~isProcessing
            /\ keyToLowerCase(key) = "enter"
            /\ currentCol < WORD_LENGTH
            /\ handleKeyPress(key) )
          => /\ toast'.text = "Not enough letters"
             /\ Fronts' = Fronts
             /\ UNCHANGED << currentRow, currentCol, isProcessing, isGameOver,
                             requests >> ]_vars

\* A short row has been submitted and refused.
C8_Witness ==
    /\ toast.text = "Not enough letters"
    /\ currentCol \in 1..(WORD_LENGTH - 1)
    /\ ~isProcessing /\ ~isGameOver
    /\ requests = <<>>

\* C9 as stated: when the dictionary rejects a guess or the call fails, row,
\* cursor, tile letters and keyboard marks are what they were just before the
\* submit, the lock is cleared and the game is not over.
C9_RejectionRestores ==
    [][ \A i \in DOMAIN requests :
          (ValidatorReject(i) \/ ValidatorError(i))
          => /\ currentRow' = requests[i].before.row
             /\ currentCol' = requests[i].before.col
             /\ Fronts' = requests[i].before.fronts
             /\ Marks' = requests[i].before.marks
             /\ ~isProcessing'
             /\ ~isGameOver' ]_vars

\* C10 as stated: a key press that arrives while a fetch, a dictionary call
\* or the timers of an evaluation are outstanding, or after win or loss,
\* changes neither row, cursor, tiles, keyboard nor flags and starts no
\* validation.
C10_LockedInputDropped ==
    [][ \A key \in InputKeys :
          ( /\ fetches > 0 \/ requests # <<>> \/ flips # <<>> \/ isGameOver
            /\ handleKeyPress(key) )
          => UNCHANGED << currentRow, currentCol, grid, keyboard, isGameOver,
                          isProcessing, requests >> ]_vars

\* C11 as stated: a session reset (initGame from the Play Again button) starts
\* only while the game is over; none starts while the session is Active or
\* Locked with a game in progress, not by a button left over from the previous
\* game and not by a second activation.
C11_ResetOnlyWhenOver == [][ ClickPlayAgain => isGameOver ]_vars

\* C12 as stated: once the provider has resolved and input is unlocked, the
\* secret word does not change until the next session reset (a reset itself
\* leaves targetWord alone: the word changes when the new fetch resolves, and
\* until then input is locked).
C12_SecretFixed == [][ ~isProcessing => targetWord' = targetWord ]_vars

\* C13 as stated: while a submission is in flight (the dictionary has not
\* answered, or the row was accepted and checkWinLoss has not run) the lock
\* stays set; nothing else, such as a provider fetch completing, clears it.
C13_LockHeldInFlight == (requests # <<>> \/ flips # <<>>) => isProcessing

\* C14 as stated: the side effects of an accepted row are atomic relative to
\* input: from the dictionary's acceptance to the end of checkWinLoss no key
\* press is processed, and while keyboard updates of the row are still to come
\* the lock is set and the row index does not advance.
C14_RowEffectsAtomic ==
    [][ /\ \A key \in InputKeys :
              (flips # <<>> /\ handleKeyPress(key))
                  => UNCHANGED << currentRow, currentCol, grid, isProcessing,
                                  requests, toast >>
        /\ (\E j \in DOMAIN flips : flips[j].next < WORD_LENGTH)
              => /\ isProcessing
                 /\ isProcessing'
                 /\ currentRow' # currentRow + 1 ]_vars

\* Every field of the session as initGame and fetchNewWord leave it.
Fresh ==
    /\ currentRow = 0
    /\ currentCol = 0
    /\ ~isGameOver
    /\ ~isProcessing
    /\ grid = createGrid
    /\ keyboard = createKeyboard

\* C16 as stated: when a session reset completes (the provider has resolved
\* and no fetch is outstanding) row and cursor are 0, the game is not over,
\* the lock is cleared, every tile is empty without verdict and every key is
\* unmarked.
C16_ResetIsFresh == [][ (fetches > 0 /\ fetches' = 0) => Fresh' ]_vars

\* Tiles of rows that were accepted and evaluated: those of a row whose timers
\* are pending, and those that show a verdict.
EvaluatedTiles ==
    { t \in Tiles : grid[t].classes \cap { "correct", "present", "absent" } # {} }
        \cup { flips[j].tileRow[i] :
                 j \in { n \in DOMAIN flips : flips[n].tileRow # <<>> },
                 i \in 1..WORD_LENGTH }

\* C17 as stated: no letter, delete or submit event changes the letters or the
\* verdicts of a row that has been accepted and evaluated.
C17_EvaluatedRowImmutable ==
    [][ \A key \in InputKeys :
          handleKeyPress(key)
              => \A t \in EvaluatedTiles : grid'[t] = grid[t] ]_vars

\* C19 as stated: outside an in-progress reset, every row below currentRow
\* holds WORD_LENGTH letters, row currentRow holds letters exactly in the
\* columns below currentCol, every row above currentRow is empty, and a
\* submitted guess has exactly WORD_LENGTH letters.
C19_GridShape ==
    fetches = 0 =>
        /\ \A t \in Tiles :
              LET row == t \div WORD_LENGTH
                  col == t % WORD_LENGTH
              IN  IF row < currentRow \/ (row = currentRow /\ col < currentCol)
                  THEN grid[t].front \in LowerLetters
                  ELSE grid[t].front = ""
        /\ \A i \in DOMAIN requests :
              requests[i].guess \in [ 1..WORD_LENGTH -> UpperLetters ]

\* C15: checkWinLoss of an accepted guess: if the guess equals the secret the
\* game is over with a win, on the last row too; otherwise, on row
\* MAX_GUESSES-1, the game is over with a loss; otherwise the row index
\* increases by exactly 1, the cursor becomes 0 and the session is Active
\* again (not locked, not over).
C15_Outcome ==
    [][ CheckTimer =>
          IF flips[1].guess = targetWord
          THEN /\ isGameOver'
               /\ outcomes' = Append(outcomes, "win")
               /\ UNCHANGED << currentRow, currentCol >>
          ELSE IF currentRow = MAX_GUESSES - 1
          THEN /\ isGameOver'
               /\ outcomes' = Append(outcomes, "loss")
               /\ UNCHANGED << currentRow, currentCol >>
          ELSE /\ currentRow' = currentRow + 1
               /\ currentCol' = 0
               /\ ~isProcessing'
               /\ ~isGameOver' ]_vars

FallbackVocabulary == { FALLBACK_WORDS[i] : i \in DOMAIN FALLBACK_WORDS }

ProviderAnswers == { wordToUpperCase(w) : w \in ProviderWords }

\* The words a failing fetch can set in the current state.
FallbackChoices ==
    { w \in FallbackVocabulary : ENABLED (FetchFail /\ targetWord' = w) }

\* C18 as stated: when the provider fails the secret is selected
\* deterministically from the fallback vocabulary (in one state a failing
\* start can select one word only), it has WORD_LENGTH upper-case letters, and
\* the session becomes Active with no error shown to the player.
C18_AsStated ==
    /\ [](Cardinality(FallbackChoices) <= 1)
    /\ [][ (fetches' < fetches /\ targetWord' \notin ProviderAnswers)
             => /\ targetWord' \in FallbackVocabulary
                /\ targetWord' \in [ 1..WORD_LENGTH -> UpperLetters ]
                /\ ~isProcessing' /\ ~isGameOver'
                /\ toast' = toast ]_vars

\* C18 amended: when the provider fails the secret is a word of the fallback
\* vocabulary drawn with Math.random (not determined by the state); every
\* fallback word has WORD_LENGTH upper-case letters; fetchNewWord clears the
\* lock and leaves the game-over flag and the toast as they were (the error
\* goes to the console only).
C18_FallbackWord ==
    [][ (fetches' < fetches /\ targetWord' \notin ProviderAnswers)
          => /\ targetWord' \in FallbackVocabulary
             /\ FallbackVocabulary \subseteq [ 1..WORD_LENGTH -> UpperLetters ]
             /\ ~isProcessing'
             /\ UNCHANGED << isGameOver, toast >> ]_vars

\* The first session started on a fallback word other than the first of the
\* list, and nothing was shown to the player.
C18_Witness ==
    /\ targetWord \in FallbackVocabulary \ { FALLBACK_WORDS[1] }
    /\ fetches = 0
    /\ ~isProcessing /\ ~isGameOver
    /\ currentCol = 0 /\ currentRow = 0
    /\ toast = NoToast

\* C20: if the dictionary answers and the timers fire, the session does not
\* stay Locked: whenever the lock is set, later the lock is clear or the game
\* is over (so every submit of a full row leads to Active or Over); after a
\* win or loss the Play Again button appears; and after a reset, as after the
\* first start, the fetch of the word unlocks input.
C20_LockLiveness ==
    /\ isProcessing ~> (~isProcessing \/ isGameOver)
    /\ (isGameOver /\ playAgainTimers > 0) ~> toast.button
    /\ (fetches > 0) ~> ~isProcessing

\* A game was won or lost, Play Again was clicked, and the new game is
\* unlocked.
C20_Witness ==
    /\ toast.button
    /\ staleClicks = 0
    /\ targetWord # <<>>
    /\ fetches = 0
    /\ ~isProcessing /\ ~isGameOver
    /\ currentRow = 0 /\ currentCol = 0

====
